---- MODULE Spec2Model ----
(***************************************************************************)
(* NFC token lifecycle of the contacts backend (src/app/api/nfc.py):       *)
(* generate_nfc_token, validate_nfc_token and connect_via_nfc running as   *)
(* concurrent requests over the nfc_tokens, connections and profiles       *)
(* tables.  Every awaited SupabaseCRUD call (src/app/core/crud.py) is one  *)
(* atomic step; the Python between two awaits belongs to the step of the   *)
(* await that precedes it.                                                 *)
(***************************************************************************)
EXTENDS Integers, Sequences, FiniteSets, TLC

VARIABLES
    nfc_tokens,     \* rows of table "nfc_tokens"
    connections,    \* rows of table "connections"
    profiles,       \* rows of table "profiles", as <<user_id, type>>
    req,            \* the requests, in the order they were received
    now,            \* datetime.now(timezone.utc), in minutes
    nextTokenId,    \* next id the store assigns to an nfc_tokens row
    nextConnId,     \* next id the store assigns to a connections row
    nextValue       \* next value drawn by generate_token()

vars == <<nfc_tokens, connections, profiles, req, now,
          nextTokenId, nextConnId, nextValue>>

----------------------------------------------------------------------------
(* Bounds *)

MaxReq == 3        \* requests received in a concurrent run
MaxInFlight == 2   \* requests served at the same time in a concurrent run
MaxSeqReq == 4     \* requests received in a run that serves one at a time
MaxTicks == 2      \* clock advances in a run
MaxDeletes == 1    \* delete_profile requests received in a run
MaxFailReq == 3    \* requests received in a run with store failures
MaxDelClockReq == 3  \* requests received in a run with deletions and the clock

(* Program constants *)

NFC_TOKEN_EXPIRE_MINUTES == 60

Users == {"u1", "u2"}
ProfileTypes == {"family", "friends"}

\* the profiles table the runs start from: every user has every profile
\* type, except that u2 has no "friends" profile
InitProfiles == (Users \X ProfileTypes) \ {<<"u2", "friends">>}

\* the clock advances by a whole time-to-live at a time, so that a token is
\* seen before, exactly at and after its expires_at
TickStep == NFC_TOKEN_EXPIRE_MINUTES

----------------------------------------------------------------------------
(* datetime <-> ISO-8601 text.  A text is <<minutes, offset suffix>>. *)

isoformat(t) == <<t, "+00:00">>

replace_Z(s) == IF s[2] = "Z" THEN <<s[1], "+00:00">> ELSE s

fromisoformat(s) == s[1]

----------------------------------------------------------------------------
(* SupabaseCRUD *)

NoToken == [id |-> 0, user_id |-> "", token |-> 0, profile_type |-> "",
            is_active |-> FALSE, expires_at |-> <<0, "">>]

\* the lookup does not filter on is_active
read_token_any(v) == {t \in nfc_tokens : t.token = v}

\* read({"token": v, "is_active": True})
read_token(v) == {t \in nfc_tokens : t.token = v /\ t.is_active}

\* the filter leaves out the profile_type
read_active_any_type(u, p) ==
    {t \in nfc_tokens : t.user_id = u /\ t.is_active}

\* read({"user_id": u, "profile_type": p, "is_active": True})
read_active(u, p) ==
    {t \in nfc_tokens : t.user_id = u /\ t.profile_type = p /\ t.is_active}

\* read({"user_id": u, "type": p}) on profiles
read_profile(u, p) == {pr \in profiles : pr = <<u, p>>}

\* the filter matches an edge in either direction
read_connection_symmetric(u, c) ==
    {x \in connections : \/ x.user_id = u /\ x.connected_user_id = c
                         \/ x.user_id = c /\ x.connected_user_id = u}

\* read({"user_id": u, "connected_user_id": c}) on connections
read_connection(u, c) ==
    {c0 \in connections : c0.user_id = u /\ c0.connected_user_id = c}

\* the row is deleted instead of being marked inactive
update_delete(id) == {t \in nfc_tokens : t.id # id}

\* update("id", id, {"is_active": False}): every row whose id matches
update_inactive(id) ==
    {IF t.id = id THEN [t EXCEPT !.is_active = FALSE] ELSE t : t \in nfc_tokens}

\* tokens[0] of a non-empty read
first(rows) == CHOOSE t \in rows : \A o \in rows : t.id <= o.id

----------------------------------------------------------------------------
(* Requests *)

\* A request record holds the handler's arguments (user_id, profile_type,
\* token) and locals (token_data, existing_tokens, expires_at, now,
\* new_connection, profile), its position pc and its answer res.  The
\* fields at and pre are history: the time the request was received and the
\* tables as they were at that moment.
\* The field raised is the exception the handler's body ended with, as
\* <<class, error_code>>, and profile_id is the argument of delete_profile.
NewReq(op, user, ptype, token) ==
    [op |-> op, pc |-> "start", user_id |-> user, profile_type |-> ptype,
     token |-> token, token_data |-> NoToken, existing_tokens |-> {},
     expires_at |-> 0, now |-> 0, new_connection |-> 0, profile |-> FALSE,
     profile_id |-> <<"", "">>, profiles |-> {}, raised |-> <<"", "">>,
     res |-> "", at |-> now,
     pre |-> [nfc_tokens |-> nfc_tokens, connections |-> connections,
              profiles |-> profiles]]

\* the error_code of the handler's last except clause
FailedCode(op) ==
    CASE op = "generate" -> "TOKEN_GENERATION_FAILED"
      [] op = "validate" -> "TOKEN_VALIDATION_FAILED"
      [] op = "connect" -> "CONNECTION_FAILED"
      [] op = "delete_profile" -> "PROFILE_DELETE_FAILED"
      [] op = "delete_account" -> "ACCOUNT_DELETION_FAILED"

\* every exception is rewrapped, a ContactsException included
except_clauses_wrap_all(op, class, code) == FailedCode(op)

\* the handlers' except clauses: a ContactsException is raised again as it
\* is, any other exception is rewrapped with the handler's *_FAILED code
except_clauses(op, class, code) ==
    IF class = "ContactsException" THEN code ELSE FailedCode(op)

\* the handler returns (code "OK") or raises ContactsException(code)
Finish(q, code) ==
    IF code = "OK"
    THEN [q EXCEPT !.pc = "done", !.res = "OK"]
    ELSE [q EXCEPT !.pc = "done", !.raised = <<"ContactsException", code>>,
                   !.res = except_clauses(q.op, "ContactsException", code)]

InFlight == {r \in DOMAIN req : req[r].pc # "done"}

Quiescent == InFlight = {}

\* a concurrent run can receive one more request
Open == Len(req) < MaxReq /\ Cardinality(InFlight) < MaxInFlight

\* a run that serves one request at a time can receive the next one
OpenSeq == Len(req) < MaxSeqReq /\ Quiescent

StoreUnchanged == UNCHANGED <<nfc_tokens, connections, profiles,
                              nextTokenId, nextConnId>>

Init ==
    /\ nfc_tokens = {}
    /\ connections = {}
    /\ profiles = InitProfiles
    /\ req = <<>>
    /\ now = 0
    /\ nextTokenId = 1
    /\ nextConnId = 1
    /\ nextValue = 1

----------------------------------------------------------------------------
(* generate_nfc_token *)

\* expires_at is the time of the call, the time-to-live is not added
GenReadProfile_no_ttl(u, p) ==
    /\ LET q == NewReq("generate", u, p, 0) IN
       IF read_profile(u, p) = {}
       THEN /\ req' = Append(req, Finish(q, "PROFILE_NOT_FOUND"))
            /\ UNCHANGED nextValue
       ELSE /\ req' = Append(req, [q EXCEPT !.pc = "gen_read",
                                   !.expires_at = now,
                                   !.token = nextValue])
            /\ nextValue' = nextValue + 1
    /\ StoreUnchanged
    /\ UNCHANGED <<now>>

\* the token is prepared whether or not the profile exists
GenReadProfile_unchecked(u, p) ==
    /\ LET q == NewReq("generate", u, p, 0) IN
       /\ req' = Append(req, [q EXCEPT !.pc = "gen_read",
                                !.expires_at = now + NFC_TOKEN_EXPIRE_MINUTES,
                                !.token = nextValue])
       /\ nextValue' = nextValue + 1
    /\ StoreUnchanged
    /\ UNCHANGED <<now>>

\* lines 46-62: profile lookup, expiry time, token value
GenReadProfile(u, p) ==
    /\ LET q == NewReq("generate", u, p, 0) IN
       IF read_profile(u, p) = {}
       THEN /\ req' = Append(req, Finish(q, "PROFILE_NOT_FOUND"))
            /\ UNCHANGED nextValue
       ELSE /\ req' = Append(req, [q EXCEPT !.pc = "gen_read",
                                   !.expires_at = now + NFC_TOKEN_EXPIRE_MINUTES,
                                   !.token = nextValue])
            /\ nextValue' = nextValue + 1
    /\ StoreUnchanged
    /\ UNCHANGED <<now>>

\* lines 65-71: read the active tokens of the pair
GenReadExisting(r) ==
    /\ req[r].pc = "gen_read"
    /\ LET ex == {t.id : t \in read_active(req[r].user_id, req[r].profile_type)} IN
       req' = [req EXCEPT ![r].existing_tokens = ex,
                          ![r].pc = IF ex = {} THEN "gen_create" ELSE "gen_update"]
    /\ StoreUnchanged
    /\ UNCHANGED <<now, nextValue>>

\* the supersession loop visits the token without deactivating it
GenUpdate_skipped(r) ==
    /\ req[r].pc = "gen_update"
    /\ \E id \in req[r].existing_tokens :
         LET rest == req[r].existing_tokens \ {id} IN
         req' = [req EXCEPT ![r].existing_tokens = rest,
                            ![r].pc = IF rest = {} THEN "gen_create"
                                                   ELSE "gen_update"]
    /\ StoreUnchanged
    /\ UNCHANGED <<now, nextValue>>

\* lines 73-74: one iteration of the supersession loop
GenUpdate(r) ==
    /\ req[r].pc = "gen_update"
    /\ \E id \in req[r].existing_tokens :
         /\ nfc_tokens' = update_inactive(id)
         /\ LET rest == req[r].existing_tokens \ {id} IN
            req' = [req EXCEPT ![r].existing_tokens = rest,
                               ![r].pc = IF rest = {} THEN "gen_create"
                                                      ELSE "gen_update"]
    /\ UNCHANGED <<connections, profiles, now,
                   nextTokenId, nextConnId, nextValue>>

\* the pair's oldest row, if there is one, is reused for the new token
GenCreate_reuse(r) ==
    /\ req[r].pc = "gen_create"
    /\ LET old == {t \in nfc_tokens : /\ t.user_id = req[r].user_id
                                      /\ t.profile_type = req[r].profile_type} IN
       IF old = {}
       THEN /\ nfc_tokens' = nfc_tokens \cup
                 {[id |-> nextTokenId, user_id |-> req[r].user_id,
                   token |-> req[r].token, profile_type |-> req[r].profile_type,
                   is_active |-> TRUE, expires_at |-> isoformat(req[r].expires_at)]}
            /\ nextTokenId' = nextTokenId + 1
       ELSE /\ nfc_tokens' =
                 {IF t.id = first(old).id
                  THEN [t EXCEPT !.token = req[r].token, !.is_active = TRUE,
                                 !.expires_at = isoformat(req[r].expires_at)]
                  ELSE t : t \in nfc_tokens}
            /\ UNCHANGED nextTokenId
    /\ req' = [req EXCEPT ![r] = Finish(req[r], "OK")]
    /\ UNCHANGED <<connections, profiles, now, nextConnId, nextValue>>

\* lines 77-91: insert the new token and answer
GenCreate(r) ==
    /\ req[r].pc = "gen_create"
    /\ nfc_tokens' = nfc_tokens \cup
         {[id |-> nextTokenId, user_id |-> req[r].user_id,
           token |-> req[r].token, profile_type |-> req[r].profile_type,
           is_active |-> TRUE, expires_at |-> isoformat(req[r].expires_at)]}
    /\ nextTokenId' = nextTokenId + 1
    /\ req' = [req EXCEPT ![r] = Finish(req[r], "OK")]
    /\ UNCHANGED <<connections, profiles, now, nextConnId, nextValue>>

----------------------------------------------------------------------------
(* validate_nfc_token *)

\* lines 105-121: token lookup and expiry test
ValReadToken(v) ==
    /\ LET q == NewReq("validate", "", "", v)
           tokens == read_token(v) IN
       IF tokens = {}
       THEN req' = Append(req, Finish(q, "INVALID_TOKEN"))
       ELSE LET td == first(tokens)
                exp == fromisoformat(replace_Z(td.expires_at))
                q1 == [q EXCEPT !.token_data = td, !.expires_at = exp,
                                !.now = now] IN
            req' = Append(req, [q1 EXCEPT !.pc =
                       IF exp < now THEN "val_expire" ELSE "val_profile"])
    /\ StoreUnchanged
    /\ UNCHANGED <<now, nextValue>>

\* EXPIRED_TOKEN is raised without the update of line 123
ValExpire_skipped(r) ==
    /\ req[r].pc = "val_expire"
    /\ req' = [req EXCEPT ![r] = Finish(req[r], "EXPIRED_TOKEN")]
    /\ StoreUnchanged
    /\ UNCHANGED <<now, nextValue>>

\* lines 123-126: deactivate the expired token
ValExpire(r) ==
    /\ req[r].pc = "val_expire"
    /\ nfc_tokens' = update_inactive(req[r].token_data.id)
    /\ req' = [req EXCEPT ![r] = Finish(req[r], "EXPIRED_TOKEN")]
    /\ UNCHANGED <<connections, profiles, now,
                   nextTokenId, nextConnId, nextValue>>

\* a successful validation also deactivates the token
ValReadProfile_consuming(r) ==
    /\ req[r].pc = "val_profile"
    /\ LET td == req[r].token_data IN
       IF read_profile(td.user_id, td.profile_type) = {}
       THEN /\ req' = [req EXCEPT ![r] = Finish(req[r], "PROFILE_NOT_FOUND")]
            /\ UNCHANGED nfc_tokens
       ELSE /\ req' = [req EXCEPT ![r] = Finish([req[r] EXCEPT !.profile = TRUE], "OK")]
            /\ nfc_tokens' = update_inactive(td.id)
    /\ UNCHANGED <<connections, profiles, now,
                   nextTokenId, nextConnId, nextValue>>

\* lines 129-139: profile lookup and answer
ValReadProfile(r) ==
    /\ req[r].pc = "val_profile"
    /\ LET td == req[r].token_data IN
       IF read_profile(td.user_id, td.profile_type) = {}
       THEN req' = [req EXCEPT ![r] = Finish(req[r], "PROFILE_NOT_FOUND")]
       ELSE req' = [req EXCEPT ![r] = Finish([req[r] EXCEPT !.profile = TRUE], "OK")]
    /\ StoreUnchanged
    /\ UNCHANGED <<now, nextValue>>

----------------------------------------------------------------------------
(* connect_via_nfc *)

\* the expiry test is made before the self-connection test
ConReadToken_expiry_first(u, v) ==
    /\ LET q == NewReq("connect", u, "", v)
           tokens == read_token(v) IN
       IF tokens = {}
       THEN req' = Append(req, Finish(q, "INVALID_TOKEN"))
       ELSE LET td == first(tokens)
                exp == fromisoformat(replace_Z(td.expires_at))
                q1 == [q EXCEPT !.token_data = td, !.expires_at = exp,
                                !.now = now] IN
            IF exp < now
            THEN req' = Append(req, [q1 EXCEPT !.pc = "con_expire"])
            ELSE IF u = td.user_id
                 THEN req' = Append(req, Finish(q1, "SELF_CONNECTION"))
                 ELSE req' = Append(req, [q1 EXCEPT !.pc = "con_read"])
    /\ StoreUnchanged
    /\ UNCHANGED <<now, nextValue>>

\* the owner's attempt deactivates the token before SELF_CONNECTION is raised
ConReadToken_self_consumes(u, v) ==
    /\ LET q == NewReq("connect", u, "", v)
           tokens == read_token(v) IN
       IF tokens = {}
       THEN /\ req' = Append(req, Finish(q, "INVALID_TOKEN"))
            /\ UNCHANGED nfc_tokens
       ELSE LET td == first(tokens)
                q1 == [q EXCEPT !.token_data = td] IN
            IF u = td.user_id
            THEN /\ req' = Append(req, Finish(q1, "SELF_CONNECTION"))
                 /\ nfc_tokens' = update_inactive(td.id)
            ELSE LET exp == fromisoformat(replace_Z(td.expires_at))
                     q2 == [q1 EXCEPT !.expires_at = exp, !.now = now] IN
                 /\ req' = Append(req, [q2 EXCEPT !.pc =
                            IF exp < now THEN "con_expire" ELSE "con_read"])
                 /\ UNCHANGED nfc_tokens
    /\ UNCHANGED <<connections, profiles, now,
                   nextTokenId, nextConnId, nextValue>>

\* the test of lines 169-172 is left out
ConReadToken_no_self_test(u, v) ==
    /\ LET q == NewReq("connect", u, "", v)
           tokens == read_token(v) IN
       IF tokens = {}
       THEN req' = Append(req, Finish(q, "INVALID_TOKEN"))
       ELSE LET td == first(tokens)
                exp == fromisoformat(replace_Z(td.expires_at))
                q2 == [q EXCEPT !.token_data = td, !.expires_at = exp,
                                !.now = now] IN
            req' = Append(req, [q2 EXCEPT !.pc =
                       IF exp < now THEN "con_expire" ELSE "con_read"])
    /\ StoreUnchanged
    /\ UNCHANGED <<now, nextValue>>

\* lines 158-181: token lookup, self-connection test, expiry test
ConReadToken(u, v) ==
    /\ LET q == NewReq("connect", u, "", v)
           tokens == read_token(v) IN
       IF tokens = {}
       THEN req' = Append(req, Finish(q, "INVALID_TOKEN"))
       ELSE LET td == first(tokens)
                q1 == [q EXCEPT !.token_data = td] IN
            IF u = td.user_id
            THEN req' = Append(req, Finish(q1, "SELF_CONNECTION"))
            ELSE LET exp == fromisoformat(replace_Z(td.expires_at))
                     q2 == [q1 EXCEPT !.expires_at = exp, !.now = now] IN
                 req' = Append(req, [q2 EXCEPT !.pc =
                            IF exp < now THEN "con_expire" ELSE "con_read"])
    /\ StoreUnchanged
    /\ UNCHANGED <<now, nextValue>>

\* EXPIRED_TOKEN is raised without the update of line 183
ConExpire_skipped(r) ==
    /\ req[r].pc = "con_expire"
    /\ req' = [req EXCEPT ![r] = Finish(req[r], "EXPIRED_TOKEN")]
    /\ StoreUnchanged
    /\ UNCHANGED <<now, nextValue>>

\* lines 183-186: deactivate the expired token
ConExpire(r) ==
    /\ req[r].pc = "con_expire"
    /\ nfc_tokens' = update_inactive(req[r].token_data.id)
    /\ req' = [req EXCEPT ![r] = Finish(req[r], "EXPIRED_TOKEN")]
    /\ UNCHANGED <<connections, profiles, now,
                   nextTokenId, nextConnId, nextValue>>

\* the connection found is deleted before CONNECTION_EXISTS is raised
ConReadConnection_dropping(r) ==
    /\ req[r].pc = "con_read"
    /\ LET found == read_connection(req[r].user_id, req[r].token_data.user_id) IN
       /\ IF found # {}
          THEN req' = [req EXCEPT ![r] = Finish(req[r], "CONNECTION_EXISTS")]
          ELSE req' = [req EXCEPT ![r].pc = "con_create"]
       /\ connections' = connections \ found
    /\ UNCHANGED <<nfc_tokens, profiles, now,
                   nextTokenId, nextConnId, nextValue>>

\* the existence test also matches the connection_type
ConReadConnection_typed(r) ==
    /\ req[r].pc = "con_read"
    /\ IF \E c \in read_connection(req[r].user_id, req[r].token_data.user_id) :
            c.connection_type = req[r].token_data.profile_type
       THEN req' = [req EXCEPT ![r] = Finish(req[r], "CONNECTION_EXISTS")]
       ELSE req' = [req EXCEPT ![r].pc = "con_create"]
    /\ StoreUnchanged
    /\ UNCHANGED <<now, nextValue>>

\* lines 189-196: is the redeemer already connected to the owner
ConReadConnection(r) ==
    /\ req[r].pc = "con_read"
    /\ IF read_connection(req[r].user_id, req[r].token_data.user_id) # {}
       THEN req' = [req EXCEPT ![r] = Finish(req[r], "CONNECTION_EXISTS")]
       ELSE req' = [req EXCEPT ![r].pc = "con_create"]
    /\ StoreUnchanged
    /\ UNCHANGED <<now, nextValue>>

\* the connection is inserted with user_id and connected_user_id exchanged
ConCreate_reversed(r) ==
    /\ req[r].pc = "con_create"
    /\ connections' = connections \cup
         {[id |-> nextConnId, user_id |-> req[r].token_data.user_id,
           connected_user_id |-> req[r].user_id,
           connection_type |-> req[r].token_data.profile_type]}
    /\ nextConnId' = nextConnId + 1
    /\ req' = [req EXCEPT ![r].new_connection = nextConnId,
                          ![r].pc = "con_invalidate"]
    /\ UNCHANGED <<nfc_tokens, profiles, now, nextTokenId, nextValue>>

\* lines 199-205: insert the connection
ConCreate(r) ==
    /\ req[r].pc = "con_create"
    /\ connections' = connections \cup
         {[id |-> nextConnId, user_id |-> req[r].user_id,
           connected_user_id |-> req[r].token_data.user_id,
           connection_type |-> req[r].token_data.profile_type]}
    /\ nextConnId' = nextConnId + 1
    /\ req' = [req EXCEPT ![r].new_connection = nextConnId,
                          ![r].pc = "con_invalidate"]
    /\ UNCHANGED <<nfc_tokens, profiles, now, nextTokenId, nextValue>>

\* the token is left active after use
ConInvalidate_skipped(r) ==
    /\ req[r].pc = "con_invalidate"
    /\ req' = [req EXCEPT ![r].pc = "con_profile"]
    /\ StoreUnchanged
    /\ UNCHANGED <<now, nextValue>>

\* line 208: deactivate the redeemed token
ConInvalidate(r) ==
    /\ req[r].pc = "con_invalidate"
    /\ nfc_tokens' = update_inactive(req[r].token_data.id)
    /\ req' = [req EXCEPT ![r].pc = "con_profile"]
    /\ UNCHANGED <<connections, profiles, now,
                   nextTokenId, nextConnId, nextValue>>

\* a missing profile is an error, as in validate_nfc_token
ConReadProfile_required(r) ==
    /\ req[r].pc = "con_profile"
    /\ LET td == req[r].token_data IN
       IF read_profile(td.user_id, td.profile_type) = {}
       THEN req' = [req EXCEPT ![r] = Finish(req[r], "PROFILE_NOT_FOUND")]
       ELSE req' = [req EXCEPT ![r] = Finish([req[r] EXCEPT !.profile = TRUE], "OK")]
    /\ StoreUnchanged
    /\ UNCHANGED <<now, nextValue>>

\* lines 211-219: profile lookup and answer
ConReadProfile(r) ==
    /\ req[r].pc = "con_profile"
    /\ LET td == req[r].token_data IN
       req' = [req EXCEPT ![r] = Finish(
                 [req[r] EXCEPT !.profile =
                      read_profile(td.user_id, td.profile_type) # {}], "OK")]
    /\ StoreUnchanged
    /\ UNCHANGED <<now, nextValue>>

----------------------------------------------------------------------------
(* The clock.  The handlers read it only to stamp a new token with        *)
(* now + NFC_TOKEN_EXPIRE_MINUTES and to compare an active token's         *)
(* expires_at with now, so its advance is followed only while some active  *)
(* token has not yet passed its expires_at.                                *)

\* a background sweep deactivates the tokens the advance leaves expired
Tick_sweep ==
    /\ now + TickStep <= MaxTicks * TickStep
    /\ \E t \in nfc_tokens :
         t.is_active /\ fromisoformat(replace_Z(t.expires_at)) >= now
    /\ now' = now + TickStep
    /\ nfc_tokens' =
         {IF fromisoformat(replace_Z(t.expires_at)) < now'
          THEN [t EXCEPT !.is_active = FALSE] ELSE t : t \in nfc_tokens}
    /\ UNCHANGED <<connections, profiles, req,
                   nextTokenId, nextConnId, nextValue>>

\* the passage of time
Tick ==
    /\ now + TickStep <= MaxTicks * TickStep
    /\ \E t \in nfc_tokens :
         t.is_active /\ fromisoformat(replace_Z(t.expires_at)) >= now
    /\ now' = now + TickStep
    /\ UNCHANGED <<nfc_tokens, connections, profiles, req,
                   nextTokenId, nextConnId, nextValue>>

----------------------------------------------------------------------------
(* Specifications *)

\* token values a client can present: the value of any token a
\* generate_nfc_token call has returned (a value that was never returned
\* cannot be guessed)
Presentable == {t.token : t \in nfc_tokens}

\* requests are served concurrently
Next ==
    \/ \E u \in Users, p \in ProfileTypes : Open /\ GenReadProfile(u, p)
    \/ \E v \in Presentable : Open /\ ValReadToken(v)
    \/ \E u \in Users, v \in Presentable : Open /\ ConReadToken(u, v)
    \/ \E r \in DOMAIN req : GenReadExisting(r)
    \/ \E r \in DOMAIN req : GenUpdate(r)
    \/ \E r \in DOMAIN req : GenCreate(r)
    \/ \E r \in DOMAIN req : ValExpire(r)
    \/ \E r \in DOMAIN req : ValReadProfile(r)
    \/ \E r \in DOMAIN req : ConExpire(r)
    \/ \E r \in DOMAIN req : ConReadConnection(r)
    \/ \E r \in DOMAIN req : ConCreate(r)
    \/ \E r \in DOMAIN req : ConInvalidate(r)
    \/ \E r \in DOMAIN req : ConReadProfile(r)
    \/ Tick

Spec == Init /\ [][Next]_vars

\* a request is received only when every earlier one has been answered
NextSeq ==
    \/ \E u \in Users, p \in ProfileTypes :
         OpenSeq /\ GenReadProfile(u, p)
    \/ \E v \in Presentable : OpenSeq /\ ValReadToken(v)
    \/ \E u \in Users, v \in Presentable :
         OpenSeq /\ ConReadToken(u, v)
    \/ \E r \in DOMAIN req : GenReadExisting(r)
    \/ \E r \in DOMAIN req : GenUpdate(r)
    \/ \E r \in DOMAIN req : GenCreate(r)
    \/ \E r \in DOMAIN req : ValExpire(r)
    \/ \E r \in DOMAIN req : ValReadProfile(r)
    \/ \E r \in DOMAIN req : ConExpire(r)
    \/ \E r \in DOMAIN req : ConReadConnection(r)
    \/ \E r \in DOMAIN req : ConCreate(r)
    \/ \E r \in DOMAIN req : ConInvalidate(r)
    \/ \E r \in DOMAIN req : ConReadProfile(r)
    \/ Tick

SpecSeq == Init /\ [][NextSeq]_vars

----------------------------------------------------------------------------
(* DELETE /profiles/{profile_id}.  A profile's id is its <<user_id, type>>. *)

\* get_by_id("id", id) on profiles: the row with this id, or None
get_by_id(id) == IF id \in profiles THEN id ELSE <<>>

\* profiles.py 436-449: profile lookup, ownership test
DelReadProfile(u, id) ==
    /\ LET q == [NewReq("delete_profile", u, "", 0) EXCEPT !.profile_id = id]
           existing_profile == get_by_id(id) IN
       IF existing_profile = <<>>
       THEN req' = Append(req, Finish(q, "PROFILE_NOT_FOUND"))
       ELSE IF existing_profile[1] # u
       THEN req' = Append(req, Finish(q, "UNAUTHORIZED"))
       ELSE req' = Append(req, [q EXCEPT !.pc = "del_type",
                                  !.profile_type = existing_profile[2]])
    /\ StoreUnchanged
    /\ UNCHANGED <<now, nextValue>>

\* profiles.py 452 (414-423): delete the row of the type-specific table,
\* which no other handler modelled here reads
DelTypeSpecific(r) ==
    /\ req[r].pc = "del_type"
    /\ req' = [req EXCEPT ![r].pc = "del_base"]
    /\ StoreUnchanged
    /\ UNCHANGED <<now, nextValue>>

\* profiles.py 455-462: delete the base profile and answer
DelBase(r) ==
    /\ req[r].pc = "del_base"
    /\ LET deleted == req[r].profile_id \in profiles IN
       req' = [req EXCEPT ![r] =
                 Finish(req[r], IF deleted THEN "OK" ELSE "PROFILE_DELETE_FAILED")]
    /\ profiles' = profiles \ {req[r].profile_id}
    /\ UNCHANGED <<nfc_tokens, connections, now,
                   nextTokenId, nextConnId, nextValue>>

Deletes == {r \in DOMAIN req : req[r].op = "delete_profile"}

\* a run that serves one request at a time can receive a delete_profile
OpenDel == OpenSeq /\ Cardinality(Deletes) < MaxDeletes

\* the ids a user asks to delete: those of the profiles the user was given
OwnProfiles(u) == {id \in InitProfiles : id[1] = u}

\* a later step of a call of one of the three NFC handlers, on a token that
\* is not past its expires_at
ServeNfc ==
    \/ \E r \in DOMAIN req : GenReadExisting(r)
    \/ \E r \in DOMAIN req : GenUpdate(r)
    \/ \E r \in DOMAIN req : GenCreate(r)
    \/ \E r \in DOMAIN req : ValReadProfile(r)
    \/ \E r \in DOMAIN req : ConReadConnection(r)
    \/ \E r \in DOMAIN req : ConCreate(r)
    \/ \E r \in DOMAIN req : ConInvalidate(r)
    \/ \E r \in DOMAIN req : ConReadProfile(r)

\* the lazy-expiry write of validate_nfc_token and connect_via_nfc
ServeExpired ==
    \/ \E r \in DOMAIN req : ValExpire(r)
    \/ \E r \in DOMAIN req : ConExpire(r)

\* one request at a time, profiles can be deleted, all within
\* NFC_TOKEN_EXPIRE_MINUTES of the start: the clock stands still, no token is
\* past its expires_at and the expiry branch of the handlers is never entered
NextDel ==
    \/ \E u \in Users, p \in ProfileTypes : OpenSeq /\ GenReadProfile(u, p)
    \/ \E v \in Presentable : OpenSeq /\ ValReadToken(v)
    \/ \E u \in Users, v \in Presentable : OpenSeq /\ ConReadToken(u, v)
    \/ \E u \in Users : \E id \in OwnProfiles(u) : OpenDel /\ DelReadProfile(u, id)
    \/ ServeNfc
    \/ \E r \in DOMAIN req : DelTypeSpecific(r)
    \/ \E r \in DOMAIN req : DelBase(r)

SpecDel == Init /\ [][NextDel]_vars

\* a run with deletions and the clock can receive the next request
OpenDelClock == Len(req) < MaxDelClockReq /\ Quiescent

\* one request at a time, profiles can be deleted, the clock advances
NextDelClock ==
    \/ \E u \in Users, p \in ProfileTypes : OpenDelClock /\ GenReadProfile(u, p)
    \/ \E v \in Presentable : OpenDelClock /\ ValReadToken(v)
    \/ \E u \in Users, v \in Presentable : OpenDelClock /\ ConReadToken(u, v)
    \/ \E u \in Users : \E id \in OwnProfiles(u) :
         /\ OpenDelClock /\ Cardinality(Deletes) < MaxDeletes
         /\ DelReadProfile(u, id)
    \/ ServeNfc
    \/ ServeExpired
    \/ \E r \in DOMAIN req : DelTypeSpecific(r)
    \/ \E r \in DOMAIN req : DelBase(r)
    \/ Tick

SpecDelClock == Init /\ [][NextDelClock]_vars

----------------------------------------------------------------------------
(* Store failures.  Every SupabaseCRUD method turns an exception of the    *)
(* client into a ValueError; the call that raised has changed no row.      *)

\* the pending store call of the handler raises ValueError
Raise(q) ==
    [q EXCEPT !.pc = "done", !.raised = <<"ValueError", "">>,
              !.res = except_clauses(q.op, "ValueError", "")]

\* nfc.py 46-49: the profile read of generate_nfc_token raises
GenFails(u, p) ==
    /\ req' = Append(req, Raise(NewReq("generate", u, p, 0)))
    /\ StoreUnchanged
    /\ UNCHANGED <<now, nextValue>>

\* nfc.py 105: the token read of validate_nfc_token raises
ValFails(v) ==
    /\ req' = Append(req, Raise(NewReq("validate", "", "", v)))
    /\ StoreUnchanged
    /\ UNCHANGED <<now, nextValue>>

\* nfc.py 158: the token read of connect_via_nfc raises
ConFails(u, v) ==
    /\ req' = Append(req, Raise(NewReq("connect", u, "", v)))
    /\ StoreUnchanged
    /\ UNCHANGED <<now, nextValue>>

\* the store call a request in flight is about to make raises
StoreFails(r) ==
    /\ req[r].pc # "done"
    /\ req' = [req EXCEPT ![r] = Raise(req[r])]
    /\ StoreUnchanged
    /\ UNCHANGED <<now, nextValue>>

\* a run with store failures can receive the next request
OpenFail == Len(req) < MaxFailReq /\ Quiescent

\* one request at a time, any store call can fail
NextFail ==
    \/ \E u \in Users, p \in ProfileTypes : OpenFail /\ GenReadProfile(u, p)
    \/ \E v \in Presentable : OpenFail /\ ValReadToken(v)
    \/ \E u \in Users, v \in Presentable : OpenFail /\ ConReadToken(u, v)
    \/ \E u \in Users, p \in ProfileTypes : OpenFail /\ GenFails(u, p)
    \/ \E v \in Presentable : OpenFail /\ ValFails(v)
    \/ \E u \in Users, v \in Presentable : OpenFail /\ ConFails(u, v)
    \/ \E r \in DOMAIN req : GenReadExisting(r)
    \/ \E r \in DOMAIN req : GenUpdate(r)
    \/ \E r \in DOMAIN req : GenCreate(r)
    \/ \E r \in DOMAIN req : ValExpire(r)
    \/ \E r \in DOMAIN req : ValReadProfile(r)
    \/ \E r \in DOMAIN req : ConExpire(r)
    \/ \E r \in DOMAIN req : ConReadConnection(r)
    \/ \E r \in DOMAIN req : ConCreate(r)
    \/ \E r \in DOMAIN req : ConInvalidate(r)
    \/ \E r \in DOMAIN req : ConReadProfile(r)
    \/ \E r \in DOMAIN req : StoreFails(r)
    \/ Tick

SpecFail == Init /\ [][NextFail]_vars

----------------------------------------------------------------------------
(* DELETE /users/profile: the account and all its data.                    *)

\* delete_many(column, u) on connections
delete_many_connections(column, u) ==
    {c \in connections : IF column = "user_id" THEN c.user_id # u
                                               ELSE c.connected_user_id # u}

\* delete_many("user_id", u) on nfc_tokens
delete_many_tokens(u) == {t \in nfc_tokens : t.user_id # u}

\* get_current_user resolves the bearer credential of u: the identity
\* provider still knows u (no delete_user_account of u has removed it)
Authenticated(u) ==
    \A r \in DOMAIN req :
        ~(req[r].op = "delete_account" /\ req[r].user_id = u /\ req[r].pc = "done")

\* users.py 185-186: read the profiles of the user
AcctReadProfiles(u) ==
    /\ LET q == NewReq("delete_account", u, "", 0)
           rows == {pr \in profiles : pr[1] = u} IN
       req' = Append(req, [q EXCEPT !.profiles = rows,
                             !.pc = IF rows = {} THEN "acct_conn_owned"
                                                 ELSE "acct_profile"])
    /\ StoreUnchanged
    /\ UNCHANGED <<now, nextValue>>

\* users.py 204-212: one iteration of the loop; the row of the type-specific
\* table, which no handler modelled here reads, goes with the base profile
AcctDeleteProfile(r) ==
    /\ req[r].pc = "acct_profile"
    /\ \E pr \in req[r].profiles :
         /\ profiles' = profiles \ {pr}
         /\ LET rest == req[r].profiles \ {pr} IN
            req' = [req EXCEPT ![r].profiles = rest,
                               ![r].pc = IF rest = {} THEN "acct_conn_owned"
                                                      ELSE "acct_profile"]
    /\ UNCHANGED <<nfc_tokens, connections, now,
                   nextTokenId, nextConnId, nextValue>>

\* users.py 218: the connections the user owns
AcctDeleteOwned(r) ==
    /\ req[r].pc = "acct_conn_owned"
    /\ connections' = delete_many_connections("user_id", req[r].user_id)
    /\ req' = [req EXCEPT ![r].pc = "acct_conn_to"]
    /\ UNCHANGED <<nfc_tokens, profiles, now,
                   nextTokenId, nextConnId, nextValue>>

\* users.py 221: the connections to the user
AcctDeleteTo(r) ==
    /\ req[r].pc = "acct_conn_to"
    /\ connections' = delete_many_connections("connected_user_id", req[r].user_id)
    /\ req' = [req EXCEPT ![r].pc = "acct_tokens"]
    /\ UNCHANGED <<nfc_tokens, profiles, now,
                   nextTokenId, nextConnId, nextValue>>

\* users.py 225: the tokens of the user
AcctDeleteTokens(r) ==
    /\ req[r].pc = "acct_tokens"
    /\ nfc_tokens' = delete_many_tokens(req[r].user_id)
    /\ req' = [req EXCEPT ![r].pc = "acct_user"]
    /\ UNCHANGED <<connections, profiles, now,
                   nextTokenId, nextConnId, nextValue>>

\* users.py 228-230: the identity provider's user is deleted, success
AcctDeleteUser(r) ==
    /\ req[r].pc = "acct_user"
    /\ req' = [req EXCEPT ![r] = Finish(req[r], "OK")]
    /\ StoreUnchanged
    /\ UNCHANGED <<now, nextValue>>

\* requests are served concurrently, accounts can be deleted; a handler that
\* depends on get_current_user runs only for a user who is authenticated
NextAcct ==
    \/ \E u \in Users, p \in ProfileTypes :
         Open /\ Authenticated(u) /\ GenReadProfile(u, p)
    \/ \E v \in Presentable : Open /\ ValReadToken(v)
    \/ \E u \in Users, v \in Presentable :
         Open /\ Authenticated(u) /\ ConReadToken(u, v)
    \/ \E u \in Users : Open /\ Authenticated(u) /\ AcctReadProfiles(u)
    \/ \E r \in DOMAIN req : GenReadExisting(r)
    \/ \E r \in DOMAIN req : GenUpdate(r)
    \/ \E r \in DOMAIN req : GenCreate(r)
    \/ \E r \in DOMAIN req : ValExpire(r)
    \/ \E r \in DOMAIN req : ValReadProfile(r)
    \/ \E r \in DOMAIN req : ConExpire(r)
    \/ \E r \in DOMAIN req : ConReadConnection(r)
    \/ \E r \in DOMAIN req : ConCreate(r)
    \/ \E r \in DOMAIN req : ConInvalidate(r)
    \/ \E r \in DOMAIN req : ConReadProfile(r)
    \/ \E r \in DOMAIN req : AcctDeleteProfile(r)
    \/ \E r \in DOMAIN req : AcctDeleteOwned(r)
    \/ \E r \in DOMAIN req : AcctDeleteTo(r)
    \/ \E r \in DOMAIN req : AcctDeleteTokens(r)
    \/ \E r \in DOMAIN req : AcctDeleteUser(r)
    \/ Tick

SpecAcct == Init /\ [][NextAcct]_vars

----------------------------------------------------------------------------
(* Vocabulary of the properties *)

Done(r) == req[r].pc = "done"

Issues(u, p) == {r \in DOMAIN req : /\ req[r].op = "generate"
                                    /\ req[r].user_id = u
                                    /\ req[r].profile_type = p}

Redeems == {r \in DOMAIN req : req[r].op = "connect"}

Validates == {r \in DOMAIN req : req[r].op = "validate"}

\* the token a request presented, as it was when the request was received
Presented(r) == {t \in req[r].pre.nfc_tokens : t.token = req[r].token}

\* the rows of the connections table inserted while request r was served,
\* in a run that serves one request at a time
CreatedDuring(r) ==
    (IF r < Len(req) THEN req[r + 1].pre.connections ELSE connections)
        \ req[r].pre.connections

\* the rows of the connections table inserted through the token with this id
ConnectionsThrough(id) ==
    {c \in connections : \E r \in Redeems : /\ req[r].token_data.id = id
                                            /\ req[r].new_connection = c.id}

\* the token is active, the redeemer is not its owner, is not yet connected
\* to the owner, and the time is before expires_at
Eligible(r) ==
    \E t \in Presented(r) :
        /\ t.is_active
        /\ req[r].at < fromisoformat(replace_Z(t.expires_at))
        /\ t.user_id # req[r].user_id
        /\ \A c \in req[r].pre.connections :
             ~(c.user_id = req[r].user_id /\ c.connected_user_id = t.user_id)

----------------------------------------------------------------------------
\* C1: in every reachable state, each (owner_id, profile_type) pair has at
\* most one token with is_active = true.
C1_AtMostOneActive ==
    \A u \in Users, p \in ProfileTypes : Cardinality(read_active(u, p)) <= 1

\* C2: once every generate_nfc_token call for a pair has completed
\* successfully (there is at least one) and no validation or redemption
\* presented a token of the pair, exactly one token of the pair is active.
C2_ExactlyOneActiveAfterIssues ==
    \A u \in Users, p \in ProfileTypes :
        ( /\ Issues(u, p) # {}
          /\ \A g \in Issues(u, p) : Done(g) /\ req[g].res = "OK"
          /\ \A r \in Redeems \cup Validates :
               \A g \in Issues(u, p) : req[r].token # req[g].token )
        => Cardinality(read_active(u, p)) = 1

\* C3: for every token, at most one connect_via_nfc call on it succeeds and
\* at most one connection is created through it.
C3_SingleUse ==
    \A t \in nfc_tokens :
        /\ Cardinality({r \in Redeems : /\ req[r].res = "OK"
                                        /\ req[r].token_data.id = t.id}) <= 1
        /\ Cardinality(ConnectionsThrough(t.id)) <= 1

\* C4: when requests are served one at a time, a connect_via_nfc call on an
\* active, unexpired token by a user who is not the owner and not yet
\* connected to the owner succeeds and inserts exactly one connection, and
\* every later connect_via_nfc call with the same token value fails
\* INVALID_TOKEN and inserts none.
C4_RedeemTwice ==
    \A r1 \in Redeems :
        (Eligible(r1) /\ Done(r1)) =>
            /\ req[r1].res = "OK"
            /\ Cardinality(CreatedDuring(r1)) = 1
            /\ \A r2 \in Redeems :
                 (r2 > r1 /\ req[r2].token = req[r1].token /\ Done(r2)) =>
                     /\ req[r2].res = "INVALID_TOKEN"
                     /\ CreatedDuring(r2) = {}

\* a redemption succeeded and the next request redeemed the same token
\* value again, as another user
C4_Witness ==
    \E r1 \in Redeems :
        /\ Eligible(r1) /\ Done(r1) /\ req[r1].res = "OK"
        /\ r1 + 1 \in Redeems /\ Done(r1 + 1)
        /\ req[r1 + 1].token = req[r1].token
        /\ req[r1 + 1].user_id # req[r1].user_id

\* C5: the connections table never holds two rows with the same
\* (user_id, connected_user_id) pair.
C5_NoDuplicateConnection ==
    \A c1, c2 \in connections :
        (c1.user_id = c2.user_id /\ c1.connected_user_id = c2.connected_user_id)
            => c1 = c2

----------------------------------------------------------------------------
\* expires_at of a stored token, as the handlers parse it
ExpiresAt(t) == fromisoformat(replace_Z(t.expires_at))

\* C6 as stated: connect_via_nfc by the owner of the presented token always
\* fails SELF_CONNECTION, whether the token is active and unexpired, active
\* and past expires_at, or already deactivated.
C6_OwnTokenAlwaysSelfConnection ==
    \A r \in Redeems : \A t \in Presented(r) :
        t.user_id = req[r].user_id =>
            Done(r) /\ req[r].res = "SELF_CONNECTION"

\* C6 as amended: connect_via_nfc by the owner of the presented token fails
\* at once and inserts no connection: with SELF_CONNECTION when the token is
\* active at the lookup, unexpired or past expires_at, and with
\* INVALID_TOKEN when the token is already deactivated.
C6_OwnTokenSelfConnectionIfActive ==
    \A r \in Redeems : \A t \in Presented(r) :
        t.user_id = req[r].user_id =>
            /\ Done(r)
            /\ req[r].new_connection = 0
            /\ req[r].res = IF t.is_active THEN "SELF_CONNECTION"
                                           ELSE "INVALID_TOKEN"

\* the owner presented an own token that was active and past expires_at
C6_Witness ==
    \E r \in Redeems : \E t \in Presented(r) :
        /\ t.user_id = req[r].user_id
        /\ t.is_active /\ ExpiresAt(t) < req[r].at
        /\ req[r].res = "SELF_CONNECTION"

\* the redeemer was connected to the presented token's owner when the
\* request was received
Connected(r, t) ==
    \E c \in req[r].pre.connections :
        c.user_id = req[r].user_id /\ c.connected_user_id = t.user_id

\* C7 as stated: when a connection (A, B) exists, every connect_via_nfc by A
\* with any token owned by B fails CONNECTION_EXISTS and inserts no
\* connection.
C7_ConnectedAlwaysConnectionExists ==
    \A r \in Redeems : \A t \in Presented(r) :
        (Connected(r, t) /\ Done(r)) =>
            /\ req[r].res = "CONNECTION_EXISTS"
            /\ CreatedDuring(r) = {}

\* C7 as amended: when a connection (A, B) exists, every connect_via_nfc by
\* A with a token owned by B inserts no connection; it fails
\* CONNECTION_EXISTS when the token is active and not past expires_at,
\* whatever its profile_type, INVALID_TOKEN when the token is deactivated
\* and EXPIRED_TOKEN when it is active and past expires_at.
C7_ConnectedNeverConnectsAgain ==
    \A r \in Redeems : \A t \in Presented(r) :
        (Connected(r, t) /\ Done(r)) =>
            /\ CreatedDuring(r) = {}
            /\ req[r].res = IF ~t.is_active THEN "INVALID_TOKEN"
                            ELSE IF ExpiresAt(t) < req[r].at THEN "EXPIRED_TOKEN"
                            ELSE "CONNECTION_EXISTS"

\* a connected redeemer was refused on a token whose profile_type differs
\* from the connection_type of the connection that exists
C7_Witness ==
    \E r \in Redeems : \E t \in Presented(r) :
        /\ Done(r) /\ req[r].res = "CONNECTION_EXISTS"
        /\ \E c \in req[r].pre.connections :
             /\ c.user_id = req[r].user_id /\ c.connected_user_id = t.user_id
             /\ c.connection_type # t.profile_type

\* C8: validate_nfc_token on an active token whose profile exists succeeds
\* at a time before expires_at, and at a time equal to or after expires_at
\* fails EXPIRED_TOKEN and leaves the token with is_active = false.
C8_ExpiredAtOrAfterExpiresAt ==
    \A r \in Validates : \A t \in Presented(r) :
        ( /\ Done(r) /\ t.is_active
          /\ <<t.user_id, t.profile_type>> \in req[r].pre.profiles ) =>
            /\ req[r].at < ExpiresAt(t) => req[r].res = "OK"
            /\ req[r].at >= ExpiresAt(t) =>
                 /\ req[r].res = "EXPIRED_TOKEN"
                 /\ \A t2 \in nfc_tokens : t2.id = t.id => ~t2.is_active

\* C9: a token is active when it is inserted, a token that is inactive stays
\* inactive in every step, and the insert of generate_nfc_token adds a row
\* with an id no row had, leaving the rows that exist as they are.
C9_NoReactivation ==
    [][ /\ \A t \in nfc_tokens : \A t2 \in nfc_tokens' :
             (t2.id = t.id /\ ~t.is_active) => ~t2.is_active
        /\ \A t2 \in nfc_tokens' :
             (\A t \in nfc_tokens : t.id # t2.id) => t2.is_active
        /\ \A r \in DOMAIN req :
             (req[r].pc = "gen_create" /\ req'[r].pc = "done") =>
                 /\ nfc_tokens \subseteq nfc_tokens'
                 /\ \E t2 \in nfc_tokens' :
                      /\ t2.token = req[r].token
                      /\ \A t \in nfc_tokens : t.id # t2.id
      ]_vars

\* a pair has a deactivated token and a token issued later that is active
C9_Witness ==
    \E t, t2 \in nfc_tokens :
        /\ t.user_id = t2.user_id /\ t.profile_type = t2.profile_type
        /\ t.id < t2.id /\ ~t.is_active /\ t2.is_active

\* request i1 returned token T1 for a pair and request i2, received while T1
\* was still active, issued again for the pair and succeeded
Reissued(i1, i2) ==
    /\ req[i1].op = "generate" /\ req[i2].op = "generate" /\ i1 # i2
    /\ req[i1].user_id = req[i2].user_id
    /\ req[i1].profile_type = req[i2].profile_type
    /\ Done(i2) /\ req[i2].res = "OK"
    /\ \E t \in req[i2].pre.nfc_tokens : t.token = req[i1].token /\ t.is_active

\* C10: when requests are served one at a time and generate_nfc_token is
\* called again for a pair whose token T1 is still active, then once the
\* second call has completed T1 is inactive and the new token T2 is active,
\* and every validate_nfc_token or connect_via_nfc received later with T1's
\* value fails INVALID_TOKEN and inserts no connection.
C10_ReissueInvalidates ==
    \A i1, i2 \in DOMAIN req :
        Reissued(i1, i2) =>
            /\ \A t \in nfc_tokens : t.token = req[i1].token => ~t.is_active
            /\ i2 = Len(req) =>
                 \E t2 \in nfc_tokens : t2.token = req[i2].token /\ t2.is_active
            /\ \A r \in Redeems \cup Validates :
                 (r > i2 /\ req[r].token = req[i1].token /\ Done(r)) =>
                     /\ req[r].res = "INVALID_TOKEN"
                     /\ CreatedDuring(r) = {}

\* after a re-issue, a redemption of T1 failed INVALID_TOKEN and a
\* redemption of T2 succeeded
C10_Witness ==
    \E i1, i2 \in DOMAIN req :
        /\ Reissued(i1, i2)
        /\ \E r \in Redeems : /\ r > i2 /\ req[r].token = req[i1].token
                              /\ req[r].res = "INVALID_TOKEN"
        /\ \E r \in Redeems : /\ r > i2 /\ req[r].token = req[i2].token
                              /\ req[r].res = "OK"
                              /\ CreatedDuring(r) # {}

----------------------------------------------------------------------------
\* C11: a connect_via_nfc call that succeeded has inserted exactly one
\* connection, from the redeemer to the token's owner with the token's
\* profile_type as connection_type, and has left the token inactive; no
\* call inserts more than one connection.
C11_RedeemCreatesOwnersConnection ==
    /\ Cardinality(connections) =
           Cardinality({r \in Redeems : req[r].new_connection # 0})
    /\ \A r \in Redeems :
         (Done(r) /\ req[r].res = "OK") =>
             /\ Presented(r) # {}
             /\ \A t \in Presented(r) :
                  /\ Cardinality({c \in connections :
                                     c.id = req[r].new_connection}) = 1
                  /\ \A c \in connections :
                       c.id = req[r].new_connection =>
                           /\ c.user_id = req[r].user_id
                           /\ c.connected_user_id = t.user_id
                           /\ c.connection_type = t.profile_type
                  /\ \A t2 \in nfc_tokens : t2.id = t.id => ~t2.is_active

\* a token was redeemed while it still had time to live
C11_Witness ==
    \E r \in Redeems : \E t \in Presented(r) :
        /\ Done(r) /\ req[r].res = "OK"
        /\ req[r].at < ExpiresAt(t)
        /\ \E c \in connections : c.id = req[r].new_connection

\* C12: no step of generate_nfc_token, validate_nfc_token or connect_via_nfc
\* removes a row of nfc_tokens, and a step changes nothing of a row that
\* exists but its is_active, from true to false.
C12_TokensNeverRemoved ==
    [][ \A t \in nfc_tokens : \E t2 \in nfc_tokens' :
            /\ t2.id = t.id
            /\ t2 = t \/ (t.is_active /\ t2 = [t EXCEPT !.is_active = FALSE])
      ]_vars

\* a redeemed token is still stored, inactive, beside another token
C12_Witness ==
    \E r \in Redeems : \E t \in nfc_tokens :
        /\ req[r].res = "OK" /\ t.id = req[r].token_data.id /\ ~t.is_active
        /\ Cardinality(nfc_tokens) >= 2

\* request r is the one that takes this step (it is received in this step or
\* its record changes in it)
Steps(r) == r > Len(req) \/ req'[r] # req[r]

\* C14: every step of a generate_nfc_token call for (owner, type) leaves
\* connections and profiles unchanged and leaves unchanged every token of
\* another owner or of another profile_type; the call inserts exactly one
\* token, of that pair, in the step in which it succeeds, and none otherwise.
C14_IssueFrame ==
    [][ \A r \in DOMAIN req' :
          (req'[r].op = "generate" /\ Steps(r)) =>
              LET u == req'[r].user_id
                  p == req'[r].profile_type
                  Other(t) == t.user_id # u \/ t.profile_type # p
                  ids == {t.id : t \in nfc_tokens}
                  inserted == {t \in nfc_tokens' : t.id \notin ids}
              IN  /\ connections' = connections
                  /\ profiles' = profiles
                  /\ \A t \in nfc_tokens : Other(t) => t \in nfc_tokens'
                  /\ \A t \in nfc_tokens' : Other(t) => t \in nfc_tokens
                  /\ Cardinality(inserted) = IF req'[r].res = "OK" THEN 1 ELSE 0
                  /\ \A t \in inserted : t.token = req'[r].token
      ]_vars

\* a call that succeeded superseded a token of its own pair while an active
\* token of the same owner's other profile_type stayed as it was
C14_Witness ==
    \E r \in DOMAIN req :
        /\ req[r].op = "generate" /\ req[r].res = "OK"
        /\ \E t \in req[r].pre.nfc_tokens :
             /\ t.user_id = req[r].user_id /\ t.profile_type # req[r].profile_type
             /\ t.is_active /\ t \in nfc_tokens
        /\ \E t \in req[r].pre.nfc_tokens :
             /\ t.user_id = req[r].user_id /\ t.profile_type = req[r].profile_type
             /\ t.is_active /\ [t EXCEPT !.is_active = FALSE] \in nfc_tokens

\* the presented token was active and past expires_at when request r looked
\* it up
PresentedExpired(r, t) ==
    t \in Presented(r) /\ t.is_active /\ ExpiresAt(t) < req[r].at

\* C16 as stated: connect_via_nfc on an active token with expires_at < now
\* fails EXPIRED_TOKEN, leaves the token inactive and creates no connection,
\* for every redeemer, the token's owner included.
C16_ExpiredBeforeSelfCheck ==
    \A r \in Redeems : \A t \in req[r].pre.nfc_tokens :
        (Done(r) /\ PresentedExpired(r, t)) =>
            /\ req[r].res = "EXPIRED_TOKEN"
            /\ req[r].new_connection = 0
            /\ \A t2 \in nfc_tokens : t2.id = t.id => ~t2.is_active

\* C16 amended: connect_via_nfc tests the redeemer against the owner before
\* it tests expires_at. On an active token with expires_at < now no step of
\* the call creates a connection; a redeemer other than the owner gets
\* EXPIRED_TOKEN and the token is inactive when the call returns; the owner
\* gets SELF_CONNECTION and the call leaves the token as it was.
C16_SelfCheckBeforeExpired ==
    [][ \A r \in DOMAIN req' :
          (req'[r].op = "connect" /\ Steps(r)) =>
            \A t \in req'[r].pre.nfc_tokens :
              (t.token = req'[r].token /\ t.is_active
                    /\ ExpiresAt(t) < req'[r].at) =>
                  /\ connections' = connections
                  /\ req'[r].new_connection = 0
                  /\ req'[r].user_id = t.user_id =>
                        /\ req'[r].res = "SELF_CONNECTION"
                        /\ nfc_tokens' = nfc_tokens
                  /\ (req'[r].user_id # t.user_id /\ req'[r].pc = "done") =>
                        /\ req'[r].res = "EXPIRED_TOKEN"
                        /\ \A t2 \in nfc_tokens' : t2.id = t.id => ~t2.is_active
      ]_vars

\* the owner was refused with SELF_CONNECTION on an expired token, which was
\* still active when another redeemer presented it afterwards and was refused
\* with EXPIRED_TOKEN
C16_Witness ==
    \E r, r2 \in Redeems : \E t \in req[r].pre.nfc_tokens :
        /\ r < r2 /\ Done(r) /\ Done(r2)
        /\ PresentedExpired(r, t) /\ req[r].user_id = t.user_id
        /\ req[r].res = "SELF_CONNECTION"
        /\ PresentedExpired(r2, t) /\ req[r2].user_id # t.user_id
        /\ req[r2].res = "EXPIRED_TOKEN"

\* the validate_nfc_token and connect_via_nfc requests that presented token t
\* after its expires_at
OnExpired(t) ==
    {r \in Redeems \cup Validates :
        req[r].token = t.token /\ ExpiresAt(t) < req[r].at}

\* C17 as stated: the requests that present a token past its expires_at
\* create no connection, and once all of them have finished the token is
\* inactive.
C17_ExpiredEndsInactive ==
    \A t \in nfc_tokens :
        /\ \A r \in OnExpired(t) : req[r].new_connection = 0
        /\ (OnExpired(t) # {} /\ \A r \in OnExpired(t) : Done(r)) => ~t.is_active

\* C17 amended: the requests that present a token past its expires_at create
\* no connection, and once all of them have finished the token is inactive
\* provided one of them is a validate_nfc_token or a connect_via_nfc by a
\* user other than the token's owner.
C17_ExpiredEndsInactiveUnlessOwnerOnly ==
    \A t \in nfc_tokens :
        /\ \A r \in OnExpired(t) : req[r].new_connection = 0
        /\ ( /\ \A r \in OnExpired(t) : Done(r)
             /\ \E r \in OnExpired(t) :
                    req[r].op = "validate" \/ req[r].user_id # t.user_id )
           => ~t.is_active

\* a validate_nfc_token and a connect_via_nfc overlapped on an expired token:
\* both read it active, both answered EXPIRED_TOKEN, and it is inactive
C17_Witness ==
    \E t \in nfc_tokens : \E r1 \in Validates, r2 \in Redeems :
        /\ {r1, r2} \subseteq OnExpired(t)
        /\ \A r \in OnExpired(t) : Done(r)
        /\ req[r1].res = "EXPIRED_TOKEN" /\ req[r2].res = "EXPIRED_TOKEN"
        /\ ~t.is_active /\ connections = {}

\* C20: a connect_via_nfc call that succeeded has inserted the one edge
\* (redeemer, owner) and no edge (owner, redeemer); a call answers
\* CONNECTION_EXISTS only when the edge (redeemer, owner) existed, so an
\* eligible redeemer succeeds although the reverse edge (owner, redeemer)
\* exists.
C20_OneWay ==
    \A r \in Redeems : \A t \in Presented(r) :
        Done(r) =>
            /\ req[r].res = "OK" =>
                 /\ Cardinality(CreatedDuring(r)) = 1
                 /\ \A c \in CreatedDuring(r) :
                      c.user_id = req[r].user_id /\ c.connected_user_id = t.user_id
            /\ req[r].res = "CONNECTION_EXISTS" => Connected(r, t)
            /\ Eligible(r) => req[r].res = "OK"

\* U1 redeemed a token of U2 while the edge (U2, U1) existed, and both edges
\* are stored
C20_Witness ==
    \E r \in Redeems : \E t \in Presented(r) :
        /\ Done(r) /\ req[r].res = "OK"
        /\ \E c \in req[r].pre.connections :
             c.user_id = t.user_id /\ c.connected_user_id = req[r].user_id
        /\ \E c \in connections :
             c.user_id = req[r].user_id /\ c.connected_user_id = t.user_id

\* the stored tokens with every token of this value set inactive
Deactivated(tokens, v) ==
    {IF t.token = v THEN [t EXCEPT !.is_active = FALSE] ELSE t : t \in tokens}

\* a connect_via_nfc call by an eligible redeemer has succeeded
EligibleRedeemed ==
    \A r \in Redeems : (Done(r) /\ Eligible(r)) => req[r].res = "OK"

\* C13: no step of a validate_nfc_token call changes connections or
\* profiles; a call that returns, or that fails INVALID_TOKEN or
\* PROFILE_NOT_FOUND, leaves nfc_tokens as it was when the call was received,
\* and a call that fails EXPIRED_TOKEN leaves it so but for the presented
\* token, now inactive. Whatever validations came before, a connect_via_nfc
\* by an eligible redeemer succeeds.
C13_ValidateReadOnly ==
    [][ /\ \A r \in DOMAIN req' :
             (req'[r].op = "validate" /\ Steps(r)) =>
                 /\ connections' = connections
                 /\ profiles' = profiles
                 /\ req'[r].res \in {"", "OK", "INVALID_TOKEN", "PROFILE_NOT_FOUND"}
                       => nfc_tokens' = req'[r].pre.nfc_tokens
                 /\ req'[r].res \notin {"", "OK", "INVALID_TOKEN", "PROFILE_NOT_FOUND"}
                       => /\ req'[r].res = "EXPIRED_TOKEN"
                          /\ nfc_tokens' =
                               Deactivated(req'[r].pre.nfc_tokens, req'[r].token)
        /\ EligibleRedeemed'
      ]_vars

\* a token is issued, validated with success, and then redeemed with success
\* by an eligible redeemer: the validation left every table as it was
C13_Witness ==
    \E g \in DOMAIN req : \E v \in Validates : \E r \in Redeems :
        /\ g < v /\ v < r
        /\ req[g].op = "generate" /\ req[g].res = "OK"
        /\ req[v].token = req[g].token /\ req[r].token = req[g].token
        /\ req[v].res = "OK" /\ req[r].pre.nfc_tokens = req[v].pre.nfc_tokens
        /\ req[r].res = "OK" /\ Eligible(r)

\* C15: a generate_nfc_token call for a pair (owner, type) that has no
\* profile ends, in the step in which it is received, with PROFILE_NOT_FOUND
\* and with nfc_tokens, connections and profiles unchanged: no token is
\* inserted and no active token of the pair is deactivated.
C15_NoProfileNoToken ==
    [][ \A r \in DOMAIN req' :
          ( /\ req'[r].op = "generate" /\ Steps(r)
            /\ <<req'[r].user_id, req'[r].profile_type>> \notin req'[r].pre.profiles )
          => /\ r > Len(req)
             /\ req'[r].pc = "done"
             /\ req'[r].res = "PROFILE_NOT_FOUND"
             /\ nfc_tokens' = nfc_tokens
             /\ connections' = connections
             /\ profiles' = profiles
      ]_vars

\* a token was issued for a pair, its profile was deleted, and a later
\* generate_nfc_token for the pair failed PROFILE_NOT_FOUND with the earlier
\* token still active
C15_Witness ==
    \E r \in DOMAIN req : \E t \in nfc_tokens :
        /\ req[r].op = "generate" /\ req[r].res = "PROFILE_NOT_FOUND"
        /\ t \in req[r].pre.nfc_tokens
        /\ t.user_id = req[r].user_id /\ t.profile_type = req[r].profile_type
        /\ t.is_active
        /\ Cardinality(nfc_tokens) = Cardinality(req[r].pre.nfc_tokens)

\* the rows of nfc_tokens when request r had been served, in a run that
\* serves one request at a time
TokensAfter(r) ==
    IF r < Len(req) THEN req[r + 1].pre.nfc_tokens ELSE nfc_tokens

\* request r presented token t, active and before its expires_at, when the
\* profile of the token's pair did not exist
Orphaned(r, t) ==
    /\ t \in Presented(r) /\ t.is_active /\ req[r].at < ExpiresAt(t)
    /\ <<t.user_id, t.profile_type>> \notin req[r].pre.profiles

\* C19: on an active, unexpired token whose profile no longer exists,
\* validate_nfc_token fails PROFILE_NOT_FOUND and leaves the token active;
\* connect_via_nfc by an eligible redeemer succeeds, inserts the connection
\* to the owner, leaves the token inactive and returns no profile.
C19_OrphanedToken ==
    \A r \in DOMAIN req : \A t \in req[r].pre.nfc_tokens :
        (Done(r) /\ Orphaned(r, t)) =>
            /\ req[r].op = "validate" =>
                 /\ req[r].res = "PROFILE_NOT_FOUND"
                 /\ t \in TokensAfter(r)
            /\ (req[r].op = "connect" /\ Eligible(r)) =>
                 /\ req[r].res = "OK"
                 /\ req[r].profile = FALSE
                 /\ \E c \in CreatedDuring(r) :
                      /\ c.id = req[r].new_connection
                      /\ c.user_id = req[r].user_id
                      /\ c.connected_user_id = t.user_id
                 /\ [t EXCEPT !.is_active = FALSE] \in TokensAfter(r)

\* after its profile was deleted, a token was validated with
\* PROFILE_NOT_FOUND and then redeemed
C19_Witness ==
    \E v \in Validates, r \in Redeems : \E t \in req[v].pre.nfc_tokens :
        /\ v < r /\ Done(v) /\ Done(r)
        /\ Orphaned(v, t) /\ Orphaned(r, t) /\ Eligible(r)
        /\ req[v].res = "PROFILE_NOT_FOUND"
        /\ req[r].res = "OK" /\ req[r].profile = FALSE

\* the error codes the handlers raise themselves
DomainCodes == {"PROFILE_NOT_FOUND", "INVALID_TOKEN", "SELF_CONNECTION",
                "EXPIRED_TOKEN", "CONNECTION_EXISTS"}

\* the answer of every request matches what its handler raised
OutcomeMatchesRaised ==
    \A r \in DOMAIN req :
        /\ ~Done(r) => req[r].res = "" /\ req[r].raised = <<"", "">>
        /\ Done(r) =>
             /\ req[r].raised[1] = "" => req[r].res = "OK"
             /\ req[r].raised[1] = "ValueError" =>
                  /\ req[r].op = "generate" => req[r].res = "TOKEN_GENERATION_FAILED"
                  /\ req[r].op = "connect" => req[r].res = "CONNECTION_FAILED"
                  /\ req[r].op = "validate" => req[r].res = "TOKEN_VALIDATION_FAILED"
             /\ req[r].raised[1] = "ContactsException" =>
                  /\ req[r].raised[2] \in DomainCodes
                  /\ req[r].res = req[r].raised[2]

\* C18: a request whose store call raised is answered TOKEN_GENERATION_FAILED
\* by generate_nfc_token and CONNECTION_FAILED by connect_via_nfc, at
\* whichever step the call raised; a request whose handler raised a domain
\* error is answered with that error's own code; a request has no answer
\* until it is finished and its answer never changes afterwards.
C18_FailureCodes ==
    [][ /\ OutcomeMatchesRaised'
        /\ \A r \in DOMAIN req : Done(r) => req'[r] = req[r]
      ]_vars

\* a generate_nfc_token whose store call raised after it had read the
\* active tokens was answered TOKEN_GENERATION_FAILED, and a connect_via_nfc
\* whose store call raised after it had inserted its connection was answered
\* CONNECTION_FAILED
C18_Witness ==
    /\ \E r \in DOMAIN req :
         /\ req[r].op = "generate" /\ Done(r) /\ req[r].raised[1] = "ValueError"
         /\ req[r].res = "TOKEN_GENERATION_FAILED" /\ req[r].existing_tokens # {}
    /\ \E r \in Redeems :
         /\ Done(r) /\ req[r].raised[1] = "ValueError"
         /\ req[r].res = "CONNECTION_FAILED" /\ req[r].new_connection # 0

\* C21: a step in which the clock advances changes no token; a step in
\* which an active token stops being active is a step of a validate_nfc_token
\* or connect_via_nfc call that presented it, or of a generate_nfc_token call
\* for its (user_id, profile_type).
C21_LazyExpiry ==
    [][ /\ now' # now => nfc_tokens' = nfc_tokens
        /\ \A t \in nfc_tokens :
             (t.is_active /\ t \notin nfc_tokens') =>
                 \E r \in DOMAIN req' :
                    /\ Steps(r)
                    /\ \/ /\ req'[r].op \in {"validate", "connect"}
                          /\ req'[r].token = t.token
                       \/ /\ req'[r].op = "generate"
                          /\ req'[r].user_id = t.user_id
                          /\ req'[r].profile_type = t.profile_type
      ]_vars

\* a token is past its expires_at by more than a whole time-to-live and is
\* still active
C21_Witness ==
    \E t \in nfc_tokens :
        t.is_active /\ ExpiresAt(t) + NFC_TOKEN_EXPIRE_MINUTES <= now

\* C22: every step keeps every stored connection as it is; a step that
\* changes the connections table is a step of a connect_via_nfc call that
\* had inserted nothing before and inserts one row; a connect_via_nfc call
\* that ended with an error has inserted nothing.
C22_ConnectionsOnlyInserted ==
    [][ /\ connections \subseteq connections'
        /\ connections' # connections =>
             \E r \in DOMAIN req' :
                /\ Steps(r) /\ req'[r].op = "connect"
                /\ r \in DOMAIN req /\ req[r].new_connection = 0
                /\ Cardinality(connections' \ connections) = 1
                /\ \A c \in connections' \ connections :
                     c.id = req'[r].new_connection
        /\ \A r \in DOMAIN req' :
             (req'[r].pc = "done" /\ req'[r].res # "OK")
                 => req'[r].new_connection = 0
      ]_vars

\* a connect_via_nfc call was refused with CONNECTION_EXISTS, and the one
\* connection that was stored when it was received is all that is stored
C22_Witness ==
    /\ Cardinality(connections) = 1
    /\ \E r \in Redeems : req[r].res = "CONNECTION_EXISTS"
                          /\ req[r].pre.connections = connections

\* C23: in every reachable state, with requests served concurrently, no
\* stored connection has user_id equal to connected_user_id.
C23_NoSelfLoop ==
    \A c \in connections : c.user_id # c.connected_user_id

\* a connection is stored, and the owner of a token was refused
\* SELF_CONNECTION on it, still active, after an earlier connect_via_nfc had
\* presented it
C23_Witness ==
    /\ connections # {}
    /\ \E r \in Redeems :
         /\ req[r].res = "SELF_CONNECTION"
         /\ \E r2 \in Redeems : r2 < r /\ req[r2].token = req[r].token
                                /\ \A t \in Presented(r) : t.is_active

\* the three tables when request r had been served, in a run that serves one
\* request at a time
After(r) ==
    IF r < Len(req) THEN req[r + 1].pre
    ELSE [nfc_tokens |-> nfc_tokens, connections |-> connections,
          profiles |-> profiles]

\* C24: with requests served one at a time, a connect_via_nfc call that
\* failed SELF_CONNECTION or CONNECTION_EXISTS presented an active token and
\* left the three tables as they were, the token still active; a later
\* connect_via_nfc by an eligible redeemer with the same token value succeeds.
C24_RefusalKeepsToken ==
    \A r \in Redeems :
        (Done(r) /\ req[r].res \in {"SELF_CONNECTION", "CONNECTION_EXISTS"}) =>
            /\ After(r) = req[r].pre
            /\ Presented(r) # {}
            /\ \A t \in Presented(r) : t.is_active /\ t \in After(r).nfc_tokens
            /\ \A r2 \in Redeems :
                 ( /\ r < r2 /\ Done(r2) /\ req[r2].token = req[r].token
                   /\ Eligible(r2) ) => req[r2].res = "OK"

\* the owner was refused SELF_CONNECTION and another user then redeemed the
\* same token
C24_Witness ==
    \E r, r2 \in Redeems :
        /\ r < r2 /\ req[r2].token = req[r].token
        /\ req[r].res = "SELF_CONNECTION"
        /\ Eligible(r2) /\ req[r2].res = "OK"

\* C25: a connect_via_nfc call that ended with any error, CONNECTION_FAILED
\* after a store call raised included, has inserted no connection; no such
\* call leaves its connection stored with the presented token still active.
C25_FailedRedeemCreatesNothing ==
    \A r \in Redeems :
        (Done(r) /\ req[r].res # "OK") =>
            /\ req[r].new_connection = 0
            /\ After(r).connections = req[r].pre.connections
            /\ ~\E c \in After(r).connections, t \in After(r).nfc_tokens :
                    /\ c.id = req[r].new_connection
                    /\ t.token = req[r].token /\ t.is_active

\* C26: a generate_nfc_token call that ended TOKEN_GENERATION_FAILED has left
\* nfc_tokens as it was when the call was received, the active token of the
\* pair still active.
C26_FailedIssueKeepsTokens ==
    \A r \in DOMAIN req :
        ( /\ req[r].op = "generate" /\ Done(r)
          /\ req[r].res = "TOKEN_GENERATION_FAILED" )
        => After(r).nfc_tokens = req[r].pre.nfc_tokens

\* token t is inactive and request r is the only validate_nfc_token or
\* connect_via_nfc that ever presented it: a generate_nfc_token for its pair
\* wrote the deactivation
SupersededBefore(t, r) ==
    /\ ~t.is_active
    /\ \A r2 \in (Redeems \cup Validates) \ {r} : req[r2].token # t.token

\* C27: no step of a connect_via_nfc call inserts a connection through a
\* token that a generate_nfc_token has already superseded, also when the
\* call read the token active before the supersession.
C27_NoRedeemAfterSupersession ==
    [][ \A r \in DOMAIN req :
          ( /\ req[r].op = "connect"
            /\ req[r].new_connection = 0 /\ req'[r].new_connection # 0 )
          => \A t \in nfc_tokens :
                t.id = req[r].token_data.id => ~SupersededBefore(t, r)
      ]_vars

\* C28: with requests served one at a time, after a validate_nfc_token or
\* connect_via_nfc call failed EXPIRED_TOKEN on a token value, every later
\* validate_nfc_token and connect_via_nfc call with that value fails
\* INVALID_TOKEN; EXPIRED_TOKEN is answered at most once per value.
C28_ExpiredOnce ==
    \A r1, r2 \in Redeems \cup Validates :
        ( /\ r1 < r2 /\ req[r1].token = req[r2].token
          /\ Done(r2) /\ req[r1].res = "EXPIRED_TOKEN" )
        => req[r2].res = "INVALID_TOKEN"

\* a validation failed EXPIRED_TOKEN, then a redemption and a validation of
\* the same value failed INVALID_TOKEN
C28_Witness ==
    \E r1, r2, r3 \in Redeems \cup Validates :
        /\ r1 < r2 /\ r2 < r3
        /\ req[r1].token = req[r2].token /\ req[r2].token = req[r3].token
        /\ req[r1].res = "EXPIRED_TOKEN"
        /\ req[r2].op # req[r3].op
        /\ req[r2].res = "INVALID_TOKEN" /\ req[r3].res = "INVALID_TOKEN"

\* between requests g and v no generate_nfc_token for g's pair, no
\* successful connect_via_nfc with g's token value and no delete_profile of
\* the pair's profile was received
NothingBetween(g, v) ==
    \A k \in DOMAIN req :
        (g < k /\ k < v) =>
            /\ ~( /\ req[k].op = "generate"
                  /\ req[k].user_id = req[g].user_id
                  /\ req[k].profile_type = req[g].profile_type )
            /\ ~( /\ req[k].op = "connect" /\ req[k].token = req[g].token
                  /\ req[k].res = "OK" )
            /\ ~( /\ req[k].op = "delete_profile"
                  /\ req[k].profile_id = <<req[g].user_id, req[g].profile_type>> )

\* C30: with requests served one at a time, a generate_nfc_token call that
\* succeeded for (owner, type) has stored exactly one token with the value it
\* returns, active, of that pair, and the expires_at it returns and stores is
\* the time of the call plus NFC_TOKEN_EXPIRE_MINUTES; a validate_nfc_token
\* of that value received before expires_at, with no issuance for the pair,
\* redemption of the token or deletion of the profile in between, returns
\* the profile of (owner, type) and user_id = owner.
C30_IssueValidateRoundTrip ==
    \A g \in DOMAIN req :
        (req[g].op = "generate" /\ Done(g) /\ req[g].res = "OK") =>
            /\ Cardinality({t \in After(g).nfc_tokens : t.token = req[g].token}) = 1
            /\ \A t \in After(g).nfc_tokens :
                 t.token = req[g].token =>
                     /\ t.is_active
                     /\ t.user_id = req[g].user_id
                     /\ t.profile_type = req[g].profile_type
                     /\ t.expires_at = isoformat(req[g].expires_at)
                     /\ ExpiresAt(t) = req[g].at + NFC_TOKEN_EXPIRE_MINUTES
            /\ req[g].expires_at = req[g].at + NFC_TOKEN_EXPIRE_MINUTES
            /\ \A v \in Validates :
                 ( /\ g < v /\ Done(v) /\ req[v].token = req[g].token
                   /\ req[v].at < req[g].expires_at
                   /\ NothingBetween(g, v) )
                 => /\ req[v].res = "OK"
                    /\ req[v].profile = TRUE
                    /\ <<req[g].user_id, req[g].profile_type>> \in req[v].pre.profiles
                    /\ req[v].token_data.user_id = req[g].user_id
                    /\ req[v].token_data.profile_type = req[g].profile_type

\* a token was issued and, after a profile of another pair had been deleted,
\* validated with success before its expires_at
C30_Witness ==
    \E g \in DOMAIN req : \E v \in Validates :
        /\ req[g].op = "generate" /\ req[g].res = "OK"
        /\ g + 1 < v /\ req[v].token = req[g].token /\ NothingBetween(g, v)
        /\ req[v].res = "OK" /\ req[v].at < req[g].expires_at
        /\ \E k \in DOMAIN req : g < k /\ k < v /\ req[k].op = "delete_profile"
                                 /\ req[k].res = "OK"

\* the users whose delete_user_account has returned success
Erased == {req[r].user_id : r \in {d \in DOMAIN req :
               req[d].op = "delete_account" /\ Done(d) /\ req[d].res = "OK"}}

\* C29: once delete_user_account(U) has returned success, no token has
\* user_id = U and no connection has user_id = U or connected_user_id = U,
\* in that state and in every later one, with requests served concurrently.
C29_ErasedLeavesNothing ==
    \A u \in Erased :
        /\ \A t \in nfc_tokens : t.user_id # u
        /\ \A c \in connections : c.user_id # u /\ c.connected_user_id # u

====
